---- MODULE Spec2Model ----
(***************************************************************************)
(* A state-machine model of micapipe's functions/03_FC.py: nuisance        *)
(* regression of fMRI timeseries and functional-connectome generation.     *)
(*                                                                         *)
(* Numbers.  A timeseries matrix is a sequence of columns (np.append with  *)
(* axis=1 is sequence concatenation).  A column is an exact rational       *)
(* vector [v |-> <<n_1..n_T>>, d |-> den]: the value at timepoint t is     *)
(* v[t]/d.  d = 0 is the NaN column (numpy's 0/0).  Columns are kept       *)
(* normalised (gcd of the numerators and d is 1), so equal values have     *)
(* equal representations.                                                  *)
(***************************************************************************)
EXTENDS Integers, Sequences, FiniteSets, TLC

\* ------------------------------------------------------------------ bounds
\* number of timepoints T of every timeseries of a run
NT == 3
\* number of cerebellar labels that may be lost in co-registration
MaxMissing == 2
\* number of data sets (seeds of the generated file contents)
MaxSeed == 1

\* ------------------------------------------------------- program constants
\* the cerebellar atlas has 34 regions (03_FC.py lines 133, 136, 142)
NCereb == 34

Times == 1..NT

\* ------------------------------------------------------------- arithmetic
Abs(x) == IF x < 0 THEN -x ELSE x

RECURSIVE GCD(_, _)
GCD(a, b) == IF b = 0 THEN a ELSE GCD(b, a % b)

RECURSIVE SumTo(_, _)
\* f[1] + ... + f[n]
SumTo(f, n) == IF n = 0 THEN 0 ELSE f[n] + SumTo(f, n - 1)

SumVec(x) == SumTo(x, Len(x))

Dot(x, y) == SumTo([t \in 1..Len(x) |-> x[t] * y[t]], Len(x))

RECURSIVE GcdTo(_, _)
GcdTo(x, n) == IF n = 0 THEN 0 ELSE GCD(Abs(x[n]), GcdTo(x, n - 1))

\* gcd of the entries of an integer vector (0 for the zero vector)
GcdVec(x) == GcdTo(x, Len(x))

\* A function constructor [i \in 1..n |-> e] is a sequence; TLC evaluates e
\* anew at every application of it unless the sequence is tabulated first.
\* Tab(f) = f.
Tab(f) == f \o << >>

\* the same for a function on any finite domain
TabF(f) == f @@ << >>

ZeroVec == Tab([t \in Times |-> 0])
OnesVec == Tab([t \in Times |-> 1])

\* an integer vector divided by g (unchanged when g = 0)
DivVec(x, g) == IF g = 0 THEN x ELSE Tab([t \in 1..Len(x) |-> x[t] \div g])

\* an integer vector divided by the gcd of its entries
Primitive(x) == DivVec(x, GcdVec(x))

\* -------------------------------------------------------- rational columns
NaNCol == [v |-> ZeroVec, d |-> 0]
ZeroCol == [v |-> ZeroVec, d |-> 1]

DivCol(c, g) == [v |-> DivVec(c.v, g), d |-> c.d \div g]

Norm(c) == IF c.d = 0 THEN NaNCol ELSE DivCol(c, GCD(c.d, GcdVec(c.v)))

\* an integer vector as a column
IntCol(x) == [v |-> x, d |-> 1]

AddCol(a, b) ==
    Norm([v |-> Tab([t \in Times |-> a.v[t] * b.d + b.v[t] * a.d]), d |-> a.d * b.d])

RECURSIVE SumCols(_, _)
SumCols(cols, n) == IF n = 0 THEN ZeroCol ELSE AddCol(SumCols(cols, n - 1), cols[n])

\* np.mean(tmpData, axis=1): the per-timepoint mean of a sequence of columns;
\* the mean of no column at all is 0/0 = NaN
DivideCol(s, m) == Norm([v |-> s.v, d |-> s.d * m])

MeanCols(cols) == DivideCol(SumCols(cols, Len(cols)), Len(cols))

\* ------------------------------------------------ ordinary least squares
\* T * (x - mean(x)): the centred vector, kept in integers
Shift(x, sx) == Tab([t \in 1..Len(x) |-> Len(x) * x[t] - sx])

Center(x) == Shift(x, SumVec(x))

\* uu * b - bu * u, made primitive
Combine(b, u, uu, bu) == Primitive(Tab([t \in 1..Len(b) |-> uu * b[t] - bu * u[t]]))

\* b with its component along u removed, up to a positive factor
ReduceStep(b, u) == Combine(b, u, Dot(u, u), Dot(b, u))

\* a with its components along the (mutually orthogonal) vectors U[1..n] removed
RECURSIVE Reduce(_, _, _)
Reduce(a, U, n) == IF n = 0 THEN a ELSE ReduceStep(Reduce(a, U, n - 1), U[n])

\* U with a appended unless a is the zero vector
AppendNonZero(U, a) == IF GcdVec(a) = 0 THEN U ELSE Append(U, a)

\* the orthogonal basis U extended by what the centred column c adds to it
Extend(U, c) == AppendNonZero(U, Reduce(Primitive(Center(c)), U, Len(U)))

\* an orthogonal integer basis of the span of the centred columns cols[1..n]
RECURSIVE OrthBasis(_, _)
OrthBasis(cols, n) == IF n = 0 THEN << >> ELSE Extend(OrthBasis(cols, n - 1), cols[n])

\* the square matrix M (a function on (1..r) \X (1..r)) without row i, column j
Minor(M, r, i, j) ==
    TabF([p \in (1..(r - 1)) \X (1..(r - 1)) |->
        M[<<IF p[1] < i THEN p[1] ELSE p[1] + 1, IF p[2] < j THEN p[2] ELSE p[2] + 1>>]])

RECURSIVE Det(_, _)
\* determinant by expansion along the first row; the empty determinant is 1
Det(M, r) ==
    IF r = 0 THEN 1
    ELSE SumTo([j \in 1..r |->
                  (IF j % 2 = 1 THEN 1 ELSE -1) * M[<<1, j>>] * Det(Minor(M, r, 1, j), r - 1)],
               r)

\* the adjugate: Adj * M = Det(M) * identity
Adj(M, r) ==
    TabF([p \in (1..r) \X (1..r) |->
        (IF (p[1] + p[2]) % 2 = 0 THEN 1 ELSE -1) * Det(Minor(M, r, p[2], p[1]), r - 1)])

\* LinearRegression().fit(mdl, .): sklearn centres the design and the data
\* (fit_intercept defaults to True) and solves the centred least-squares
\* problem with scipy.linalg.lstsq, i.e. coef = pinv(Xc) yc, the minimum-norm
\* solution.  With U a basis of the column space of Xc, C = U^T Xc and
\* N = C C^T:   pinv(Xc) = C^T N^-1 U^T.   The result is the integer matrix
\* W = C^T adj(N) U^T and the denominator den = det(N) > 0, so that
\* coef = W (T yc) / den.
\* C = U^T A for the centred columns A
CrossMat(U, A) == TabF([p \in (1..Len(U)) \X (1..Len(A)) |-> Dot(U[p[1]], A[p[2]])])

\* N = C C^T
GramMat(C, r, k) ==
    TabF([p \in (1..r) \X (1..r) |-> SumTo([j \in 1..k |-> C[<<p[1], j>>] * C[<<p[2], j>>]], k)])

\* AN U^T
TimesBasis(AN, U, r) ==
    TabF([p \in (1..r) \X Times |-> SumTo([l \in 1..r |-> AN[<<p[1], l>>] * U[l][p[2]]], r)])

\* C^T AU
CoefRows(C, AU, r, k) ==
    Tab([j \in 1..k |-> Tab([t \in Times |-> SumTo([i \in 1..r |-> C[<<i, j>>] * AU[<<i, t>>]], r)])])

CoefFromGram(U, C, N, r, k) ==
    [W |-> CoefRows(C, TimesBasis(Adj(N, r), U, r), r, k), den |-> Det(N, r)]

CoefFromCross(U, C, r, k) == CoefFromGram(U, C, GramMat(C, r, k), r, k)

CoefFromBasis(U, A) == CoefFromCross(U, CrossMat(U, A), Len(U), Len(A))

CoefMap(mdl) ==
    CoefFromBasis(OrthBasis(mdl, Len(mdl)), Tab([j \in 1..Len(mdl) |-> Center(mdl[j])]))

\* W yc for the centred data yc
ApplyCoef(W, yc) == Tab([j \in 1..Len(W) |-> Dot(W[j], yc)])

\* slm.coef_ for one data column y (integers), times cm.den
Coef(cm, y) == ApplyCoef(cm.W, Center(y))

\* col - mdl b / den
Subtract(col, mdl, b, den) ==
    Norm([v |-> Tab([t \in Times |->
                   den * col.v[t] - SumTo([j \in 1..Len(mdl) |-> mdl[j][t] * b[j]], Len(mdl))]),
          d |-> col.d * den])

\* Data - np.dot(mdl, slm.coef_.T) for one column of Data: the intercept_
\* that sklearn fitted is not part of coef_ and is not subtracted
ResidualCol(cm, mdl, col) == Subtract(col, mdl, Coef(cm, col.v), cm.den)

\* --------------------------------------------------------- Python values
\* Command-line arguments are strings; the literals they are compared with
\* are strings or integers.  Python's == between a str and an int is False.
PyStr(x) == [type |-> "str", val |-> x]
PyInt(x) == [type |-> "int", val |-> x]
PyEq(a, b) == a.type = b.type /\ a.val = b.val

\* ------------------------------------------------------------- int8 casts
\* the integer part of n/d, towards zero (C's conversion of a float)
Trunc(n, d) == IF n >= 0 THEN n \div d ELSE -((-n) \div d)

\* an integer kept in 8 signed bits
Wrap8(x) == ((x + 128) % 256) - 128

\* a float column stored into a dtype=np.int8 array
Int8Col(c) == IntCol(Tab([t \in Times |-> Wrap8(Trunc(c.v[t], c.d))]))

\* ------------------------------------------------ contents of input files
\* The files of one subject are generated from a seed: small integers that
\* vary over time and between columns.
GenVec(seed, j) == Tab([t \in Times |-> ((seed + 1) * t * t + j * t + j) % 5])

\* *_timeseries_subcortical.txt, as np.loadtxt returns it
SctxFile(seed) == <<IntCol(GenVec(seed, 1)), IntCol(GenVec(seed, 2))>>

\* *_timeseries_cerebellum.txt: one column per label that survived, with
\* values that are not whole numbers (odd numerators over 2)
CerebFile(seed, nLabels) ==
    Tab([i \in 1..nLabels |->
            Norm([v |-> Tab([t \in Times |-> 2 * GenVec(seed, i + 2)[t] + 1]), d |-> 2])])

\* the conte69 surface timeseries: nib.load(...).get_fdata() squeezed, one
\* entry (a timeseries) per vertex
C69Lh(seed) == <<IntCol(GenVec(seed, 11)), IntCol(GenVec(seed, 12))>>
C69Rh(seed) == <<IntCol(GenVec(seed, 13)), IntCol(GenVec(seed, 14))>>

\* the native surface timeseries of each hemisphere
NatLh(seed) == <<IntCol(GenVec(seed, 21)), IntCol(GenVec(seed, 22))>>
NatRh(seed) == <<IntCol(GenVec(seed, 23)), IntCol(GenVec(seed, 24))>>

\* the confound files: matrices of 0/1 columns (np.loadtxt and expand_dim)
ConfVec(seed, k) == Tab([t \in Times |-> ((t + seed) \div k) % 2])
ConfFiles(seed) ==
    [spike |-> <<Tab([t \in Times |-> IF t = 2 THEN 1 ELSE 0])>>,
     dof   |-> <<ConfVec(seed, 1)>>,
     wm    |-> <<ConfVec(seed, 2)>>,
     csf   |-> <<ConfVec(seed + 1, 2)>>,
     gs    |-> <<ConfVec(seed + 1, 3)>>]

\* the annotation files of one hemisphere for a parcellation, as
\* nib.freesurfer.io.read_annot(path, orig_ids=True) returns them: the
\* annotation id of every vertex, and column 4 of the colour table.  A bad
\* file has one vertex more than the native surface.
AnnotLh(seed, bad) ==
    [labels |-> IF seed % 2 = 0 THEN <<200, 100>> ELSE <<200, 200>>,
     ctab   |-> <<100, 200>>]
AnnotRh(seed, bad) ==
    [labels |-> IF bad THEN <<300, 100, 300>> ELSE <<300, 100>>,
     ctab   |-> <<100, 200, 300>>]

\* <parcellation>_conte69.csv: the label of every conte69 vertex.  Seed 0
\* gives the labels 0, 1; a seed s > 0 gives labels that neither start at 0
\* nor are contiguous (s, 2s + 1).
C69Labels(seed, nVertex) ==
    Tab([j \in 1..nVertex |-> (seed + 1) * ((j - 1) \div 2) + seed])

\* ---------------------------------------------------- cerebellar labels
\* *_cerebellum_roi_stats.txt after the header: tab-separated fields that
\* alternate a label and a statistic (values = cerebLabels[startROIs:].split)
RoiStatFields(labels) ==
    Tab([i \in 1..(2 * Len(labels)) |-> IF i % 2 = 1 THEN labels[(i + 1) \div 2] ELSE 0])

\* roiLabels = values[0::2]
EveryOther(values) == Tab([i \in 1..((Len(values) + 1) \div 2) |-> values[2 * i - 1]])

\* the elements of a finite set of integers in ascending order (sorted())
RECURSIVE SortedSeq(_)
SortedSeq(S) ==
    IF S = {} THEN << >>
    ELSE LET m == CHOOSE x \in S : \A y \in S : x <= y
         IN  <<m>> \o SortedSeq(S \ {m})

Range(f) == {f[i] : i \in DOMAIN f}

\* missing_elements(roiList)
missing_elements(roiList) == SortedSeq((0..(NCereb - 1)) \ Range(roiList))

\* roiLabelsInt: the labels stored in an int8 array, minus 1
RoiLabelsInt(roiLabels) ==
    Tab([i \in 1..Len(roiLabels) |-> Wrap8(Wrap8(roiLabels[i]) - 1)])

\* a[idx] with Python's indexing of an axis of length len (idx is 0-based,
\* a negative idx counts from the end); the result is a 1-based position
PyIndex(idx, len) == IF idx < 0 THEN len + idx + 1 ELSE idx + 1

\* lines 142-148: the 34-column int8 matrix with every present column
\* scattered to its label's position (a later column overwrites an earlier one)
RECURSIVE Scatter(_, _, _, _)
Scatter(cereb, cereb_tmp, idx, n) ==
    IF n = 0 THEN cereb
    ELSE [Scatter(cereb, cereb_tmp, idx, n - 1)
            EXCEPT ![PyIndex(idx[n], NCereb)] = Int8Col(cereb_tmp[n])]

\* lines 136-150: cereb and exclude_labels from the loaded files
Reconcile(cereb_tmp, roiLabels) ==
    IF Len(roiLabels) = NCereb
    THEN [cereb |-> cereb_tmp, exclude_labels |-> [nan |-> TRUE, idx |-> << >>]]
    ELSE LET roiLabelsInt == RoiLabelsInt(roiLabels)
         IN  [cereb |-> Scatter(Tab([i \in 1..NCereb |-> ZeroCol]), cereb_tmp,
                                roiLabelsInt, Len(roiLabels)),
              exclude_labels |-> [nan |-> FALSE, idx |-> missing_elements(roiLabelsInt)]]

\* ------------------------------------------------------ get_regressed_data
\* np.ones((T, 1))
ones == <<OnesVec>>

\* the spike branch with its two tests in the other order
SpikeModelGsrFirst(performNSR, performGSR, c) ==
    IF PyEq(performGSR, PyStr("1"))
    THEN ones \o c.spike \o c.dof \o c.wm \o c.csf \o c.gs
    ELSE IF PyEq(performNSR, PyStr("1"))
         THEN ones \o c.spike \o c.dof \o c.wm \o c.csf
         ELSE ones \o c.spike

\* lines 210-218: the design matrix when a spike file was found
SpikeModel(performNSR, performGSR, c) ==
    IF PyEq(performNSR, PyStr("1"))
    THEN ones \o c.spike \o c.dof \o c.wm \o c.csf
    ELSE IF PyEq(performGSR, PyStr("1"))
         THEN ones \o c.spike \o c.dof \o c.wm \o c.csf \o c.gs
         ELSE ones \o c.spike

\* lines 224-232: the design matrix when no spike file was found; the flags
\* are compared with the integer 1
NoSpikeModel(performNSR, performGSR, c) ==
    IF PyEq(performNSR, PyInt(1))
    THEN ones \o c.dof \o c.wm \o c.csf
    ELSE IF PyEq(performGSR, PyInt(1))
         THEN ones \o c.dof \o c.wm \o c.csf \o c.gs
         ELSE ones

\* Data_res = Data - np.dot(mdl, slm.coef_.T), column by column
Residuals(cm, mdl, Data) == Tab([j \in 1..Len(Data) |-> ResidualCol(cm, mdl, Data[j])])

\* check_arrays without its comparison of mdl with ones: it always fits
check_arrays_always(mdl, Data) ==
    [fitted |-> TRUE, Data_res |-> Residuals(CoefMap(mdl), mdl, Data)]

\* lines 196-203: check_arrays; fitted says whether 'apply regression' ran
check_arrays(mdl, Data) ==
    IF mdl # ones
    THEN [fitted |-> TRUE, Data_res |-> Residuals(CoefMap(mdl), mdl, Data)]
    ELSE [fitted |-> FALSE, Data_res |-> Data]

\* lines 173-235: one call of get_regressed_data, as a record of what it was
\* given, the design it built and what it returned
Returned(Data_name, Data, mdl, res) ==
    [name |-> Data_name, Data |-> Data, mdl |-> mdl,
     fitted |-> res.fitted, Data_corr |-> res.Data_res]

Regress(Data_name, Data, mdl) == Returned(Data_name, Data, mdl, check_arrays(mdl, Data))

get_regressed_data(c, Data, performNSR, performGSR, Data_name) ==
    Regress(Data_name, Data,
            IF c.x_spike # ""
            THEN SpikeModel(performNSR, performGSR, c)
            ELSE NoSpikeModel(performNSR, performGSR, c))

\* ------------------------------------------------------------ correlation
\* A correlation value r is the exact triple <<sign, p, q>> with r^2 = p/q
\* in lowest terms; q = 0 is NaN.
NaN == <<0, 0, 0>>
Zero == <<0, 0, 1>>

\* what np.corrcoef needs of one variable: whether it is NaN, and its
\* deviations from its mean up to a positive factor
Deviations(col) == [nan |-> col.d = 0, x |-> Primitive(Center(col.v))]

\* sign * sqrt(p / q) with p / q in lowest terms
Lowest(sign, p, q, g) == <<sign, p \div g, q \div g>>

Ratio(sign, p, q) == Lowest(sign, p, q, GCD(p, q))

\* cov^2 / (va vb), reduced before multiplying
Squared(cov, va, vb, g1, g2) ==
    Ratio(IF cov > 0 THEN 1 ELSE -1,
          (Abs(cov) \div g1) * (Abs(cov) \div g2), (va \div g1) * (vb \div g2))

Pearson(cov, va, vb) ==
    IF va = 0 \/ vb = 0 THEN NaN
    ELSE IF cov = 0 THEN Zero
    ELSE Squared(cov, va, vb, GCD(Abs(cov), va), GCD(Abs(cov), vb))

\* the Pearson correlation of two variables: covariance over the product of
\* the standard deviations; 0/0 (a constant variable) and NaN data give NaN
CorrEntry(a, b) ==
    IF a.nan \/ b.nan THEN NaN ELSE Pearson(Dot(a.x, b.x), Dot(a.x, a.x), Dot(b.x, b.x))

CorrMat(dv) == Tab([i \in 1..Len(dv) |-> Tab([j \in 1..Len(dv) |-> CorrEntry(dv[i], dv[j])])])

\* np.corrcoef(np.transpose(ts)): the columns of ts are the variables
corrcoef(ts) == CorrMat(Tab([i \in 1..Len(ts) |-> Deviations(ts[i])]))

\* ts_r[:, c] = 0 ; ts_r[c, :] = 0   (c is 0-based)
\* only ts_r[:, c] = 0
ZeroColumnAt(M, at) ==
    Tab([i \in 1..Len(M) |-> Tab([j \in 1..Len(M) |-> IF j = at THEN Zero ELSE M[i][j]])])

ZeroAt(M, at) ==
    Tab([i \in 1..Len(M) |-> Tab([j \in 1..Len(M) |-> IF i = at \/ j = at THEN Zero ELSE M[i][j]])])

ZeroRowCol(M, c) == ZeroAt(M, PyIndex(c, Len(M)))

RECURSIVE ZeroAll(_, _, _, _)
ZeroAll(M, idx, n_sctx, n) ==
    IF n = 0 THEN M ELSE ZeroRowCol(ZeroAll(M, idx, n_sctx, n - 1), idx[n] + n_sctx)

\* the matrix with its lower triangle left in place
no_triu(M) == M

\* np.triu
triu(M) ==
    Tab([i \in 1..Len(M) |-> Tab([j \in 1..Len(M) |-> IF j >= i THEN M[i][j] ELSE Zero])])

\* lines 278-284 and 366-372: zero the excluded labels, keep the upper triangle
FinishFC(ts_r, exclude_labels, n_sctx) ==
    IF ~exclude_labels.nan
    THEN triu(ZeroAll(ts_r, exclude_labels.idx, n_sctx, Len(exclude_labels.idx)))
    ELSE triu(ts_r)

\* the columns of s whose mask entry is TRUE (numpy's boolean indexing)
RECURSIVE SelectMask(_, _, _)
SelectMask(s, mask, n) ==
    IF n = 0 THEN << >>
    ELSE IF mask[n] THEN Append(SelectMask(s, mask, n - 1), s[n])
         ELSE SelectMask(s, mask, n - 1)

\* np.unique
unique(x) == SortedSeq(Range(x))

\* lines 268-275: the conte69 regional timeseries; region number lab takes
\* the vertices whose label equals lab
ParcellateC69(data_corr, n, n_vertex, thisparc) ==
    LET data_corr_ctx == SubSeq(data_corr, Len(data_corr) - n_vertex + 1, Len(data_corr))
        uparcel == unique(thisparc)
        ts_ctx == Tab([l \in 1..Len(uparcel) |->
                     MeanCols(SelectMask(data_corr_ctx,
                                         Tab([j \in 1..Len(thisparc) |-> thisparc[j] = l - 1]),
                                         Len(thisparc)))])
    IN  SubSeq(data_corr, 1, n) \o ts_ctx

\* np.where(ctab[:,4] == label)[0][0]: the first 0-based row with that id
IndexOf(ctab, label) == (CHOOSE i \in 1..Len(ctab) :
                            ctab[i] = label /\ \A k \in 1..(i - 1) : ctab[k] # label) - 1

\* lines 347-351: the region index of every native vertex, left then right
NativeParc(lh, rh) ==
    Tab([x \in 1..(Len(lh.labels) + Len(rh.labels)) |->
        IF x <= Len(lh.labels) THEN IndexOf(lh.ctab, lh.labels[x])
        ELSE IndexOf(rh.ctab, rh.labels[x - Len(lh.labels)]) + Len(lh.ctab)])

\* lines 355-361: the native regional timeseries; the region at position lab
\* takes the vertices whose index equals uparcel[lab]
ParcellateNative(dataNative_corr, sctx_cereb_corr, native_parc) ==
    LET uparcel == unique(native_parc)
        ts_native_ctx == Tab([l \in 1..Len(uparcel) |->
                     MeanCols(SelectMask(dataNative_corr,
                                         Tab([j \in 1..Len(native_parc) |-> native_parc[j] = uparcel[l]]),
                                         Len(native_parc)))])
    IN  sctx_cereb_corr \o ts_native_ctx

\* ---------------------------------------------------------------- state
\* more bounds: the candidate scans a glob may match
MaxScans == 2

\* the labels that co-registration may lose: any subset of these
Lossable == {((i * (NCereb - 1)) % NCereb) + 1 : i \in 0..(MaxMissing - 1)}

FlagValues == {"0", "1"}
SurfaceStates == {"absent", "empty", "populated"}
\* the subcortical file: no number, one number, one row of numbers, a matrix
SctxKinds == {"empty", "scalar", "vector", "matrix"}
\* what os.listdir(volmDir) may return: the atlas images, in either order
Listings ==
    {<<"s_atlas-subcortical.nii.gz", "s_atlas-aparc-a2009s.nii.gz",
       "s_atlas-cerebellum.nii.gz", "s_atlas-aparc.nii.gz">>,
     <<"s_atlas-aparc.nii.gz", "s_atlas-cerebellum.nii.gz",
       "s_atlas-subcortical.nii.gz", "s_atlas-aparc-a2009s.nii.gz">>}

VARIABLES
    pc,               \* where the script is
    argv,             \* sys.argv: performNSR, performGSR, noFC, and funcDir
    seed,             \* which subject's files are on disk
    surfaces,         \* funcDir/surfaces/ as the script found it
    scans,            \* how many files the conte69 glob matched
    sctxKind,         \* what the subcortical file held
    badAnnot,         \* the parcellations whose annotation files are too long
    printed,          \* the messages printed so far
    written,          \* the arrays handed to np.savetxt so far, by file
    lh_data, rh_data, data, n_vertex_ctx_c69,
    sctx, n_sctx, cereb_tmp, roiLabels, cereb, exclude_labels, n,
    conf,             \* x_spike and the contents of the confound files
    calls,            \* the calls of get_regressed_data so far
    data_corr, parcellationList, parcellationList_conte,
    k,                \* the position of a parcellation loop in its list
    ts, ts_r,
    dataNative_corr, sctx_cereb_corr

vars == <<pc, argv, seed, surfaces, scans, sctxKind, badAnnot, printed, written,
          lh_data, rh_data, data, n_vertex_ctx_c69,
          sctx, n_sctx, cereb_tmp, roiLabels, cereb, exclude_labels, n,
          conf, calls, data_corr, parcellationList, parcellationList_conte, k,
          ts, ts_r, dataNative_corr, sctx_cereb_corr>>

envVars == <<argv, seed>>
c69Vars == <<lh_data, rh_data, data, n_vertex_ctx_c69>>
volVars == <<sctx, n_sctx, cereb_tmp, roiLabels, cereb, exclude_labels, n, conf>>
fcVars == <<parcellationList, parcellationList_conte, k, ts, ts_r>>
natVars == <<dataNative_corr, sctx_cereb_corr>>

\* a message and what it is about
Msg(text, about) == <<text, about>>
\* an output file: its kind and the parcellation it belongs to
File(kind, parcellation) == <<kind, parcellation>>

Save(files, name, content) ==
    TabF([f \in DOMAIN files \cup {name} |-> IF f = name THEN content ELSE files[f]])

Init ==
    /\ pc = "start"
    /\ argv \in [performNSR : {PyStr(f) : f \in FlagValues},
                 performGSR : {PyStr(f) : f \in FlagValues},
                 noFC : {"TRUE", "FALSE"},
                 funcDirWords : {1, 2}]
    /\ seed \in 0..MaxSeed
    /\ surfaces = "unread" /\ scans = 0 /\ sctxKind = "unread" /\ badAnnot = {}
    /\ printed = {} /\ written = << >>
    /\ lh_data = << >> /\ rh_data = << >> /\ data = << >> /\ n_vertex_ctx_c69 = 0
    /\ sctx = << >> /\ n_sctx = 0 /\ cereb_tmp = << >> /\ roiLabels = << >>
    /\ cereb = << >> /\ exclude_labels = [nan |-> TRUE, idx |-> << >>] /\ n = 0
    /\ conf = [x_spike |-> ""] /\ calls = << >> /\ data_corr = << >>
    /\ parcellationList = << >> /\ parcellationList_conte = << >> /\ k = 0
    /\ ts = << >> /\ ts_r = << >>
    /\ dataNative_corr = << >> /\ sctx_cereb_corr = << >>

\* lines 64-78: os.listdir raises when the directory does not exist; an
\* empty listing is falsy
CheckSurfaces ==
    /\ pc = "start"
    /\ \E s \in SurfaceStates :
        /\ surfaces' = s
        /\ IF s = "absent"
           THEN pc' = "crashed" /\ printed' = printed
           ELSE IF s = "empty"
                THEN pc' = "exited"
                     /\ printed' = printed \cup {Msg("No surface directory. Exiting. Bye-bye", "")}
                ELSE pc' = "load_c69"
                     /\ printed' = printed \cup {Msg("surfaces directory found", "")}
    /\ UNCHANGED <<envVars, scans, sctxKind, badAnnot, written, c69Vars, volVars,
                   calls, data_corr, fcVars, natVars>>

\* lines 86-92: glob, join and nib.load; the joined string names a file only
\* when exactly one file matched
LoadConte69 ==
    /\ pc = "load_c69"
    /\ \E m \in 0..MaxScans :
        /\ scans' = m
        /\ IF m = 1
           THEN pc' = "check_scans" /\ lh_data' = C69Lh(seed) /\ rh_data' = C69Rh(seed)
           ELSE pc' = "crashed" /\ UNCHANGED <<lh_data, rh_data>>
    /\ UNCHANGED <<envVars, surfaces, sctxKind, badAnnot, printed, written, data,
                   n_vertex_ctx_c69, volVars, calls, data_corr, fcVars, natVars>>

\* len(x_lh.split(" ")): "" splits into one piece; m paths joined by spaces
\* split into m times the pieces of one path (funcDir may hold spaces)
SplitLen(m, words) == IF m = 0 THEN 1 ELSE m * words

\* lines 94-110: the scan-count check and, when it passes, the reformat
CheckScans ==
    /\ pc = "check_scans"
    /\ IF SplitLen(scans, argv.funcDirWords) = 1
       THEN /\ printed' = printed \cup {Msg("only one scan found", "")}
            /\ data' = lh_data \o rh_data
            /\ n_vertex_ctx_c69' = Len(lh_data \o rh_data)
            /\ lh_data' = << >> /\ rh_data' = << >>
            /\ pc' = "load_sctx"
       ELSE /\ printed' = printed \cup {Msg("more than one scan found; exiting. Bye-bye", "")}
            /\ pc' = "exited"
            /\ UNCHANGED c69Vars
    /\ UNCHANGED <<envVars, surfaces, scans, sctxKind, badAnnot, written, volVars,
                   calls, data_corr, fcVars, natVars>>

\* lines 112-119: np.loadtxt gives shape (0,) for an empty file, () for a
\* single number, (k,) for one row or one column; a non-empty shape tuple is
\* truthy, and shape[1] of a one-dimensional array raises IndexError
LoadSctx ==
    /\ pc = "load_sctx"
    /\ \E kind \in SctxKinds :
        /\ sctxKind' = kind
        /\ IF kind = "scalar"
           THEN /\ printed' = printed \cup
                       {Msg("Uh oh, your subcortical timeseries file is empty; exiting. Bye-bye", "")}
                /\ pc' = "exited" /\ UNCHANGED <<sctx, n_sctx>>
           ELSE IF kind = "matrix"
                THEN /\ sctx' = SctxFile(seed) /\ n_sctx' = Len(SctxFile(seed))
                     /\ pc' = "load_cereb" /\ printed' = printed
                ELSE pc' = "crashed" /\ UNCHANGED <<sctx, n_sctx, printed>>
    /\ UNCHANGED <<envVars, surfaces, scans, badAnnot, written, c69Vars,
                   cereb_tmp, roiLabels, cereb, exclude_labels, n, conf,
                   calls, data_corr, fcVars, natVars>>

\* lines 121-164: the cerebellar files, the reconciliation, the concatenation
\* [sctx, cereb, cortex], and the globs of the confound files
LoadCereb ==
    /\ pc = "load_cereb"
    /\ \E lost \in SUBSET Lossable, spike \in {"", "spikeRegressors_FD.1D"} :
        LET present == SortedSeq((1..NCereb) \ lost)
            labels == EveryOther(RoiStatFields(present))
            tmp == CerebFile(seed, Len(present))
            rec == Reconcile(tmp, labels)
        IN  /\ cereb_tmp' = tmp
            /\ roiLabels' = labels
            /\ cereb' = rec.cereb
            /\ exclude_labels' = rec.exclude_labels
            /\ printed' = printed \cup
                 {IF Len(labels) = NCereb
                  THEN Msg("All cerebellar labels found in parcellation!", "")
                  ELSE Msg("Some cerebellar ROIs were lost in co-registration to fMRI space", "")}
            /\ n' = Len(sctx) + Len(rec.cereb)
            /\ data' = (sctx \o rec.cereb) \o data
            /\ conf' = [x_spike |-> spike] @@ ConfFiles(seed)
    /\ pc' = "regress_c69"
    /\ UNCHANGED <<envVars, surfaces, scans, sctxKind, badAnnot, written,
                   lh_data, rh_data, n_vertex_ctx_c69, sctx, n_sctx,
                   calls, data_corr, fcVars, natVars>>

\* lines 237-241: the conte69 regression and its clean timeseries file
RegressConte69 ==
    /\ pc = "regress_c69"
    /\ LET call == get_regressed_data(conf, data, argv.performNSR, argv.performGSR, "conte69")
       IN  /\ calls' = Append(calls, call)
           /\ data_corr' = call.Data_corr
           /\ written' = Save(written, File("conte69-timeseries_clean", ""), call.Data_corr)
    /\ pc' = "list_parc"
    /\ UNCHANGED <<envVars, surfaces, scans, sctxKind, badAnnot, printed, c69Vars,
                   volVars, fcVars, natVars>>

\* str.split(sep): the pieces of str between the occurrences of sep; piece
\* is the piece read so far
RECURSIVE SplitFrom(_, _, _)
SplitFrom(str, sep, piece) ==
    IF Len(str) < Len(sep) THEN <<piece \o str>>
    ELSE IF SubSeq(str, 1, Len(sep)) = sep
         THEN <<piece>> \o SplitFrom(SubSeq(str, Len(sep) + 1, Len(str)), sep, "")
         ELSE SplitFrom(SubSeq(str, 2, Len(str)), sep, piece \o SubSeq(str, 1, 1))

Split(str, sep) == SplitFrom(str, sep, "")

\* sub.split('atlas-')[1].split('.nii')[0]
AtlasName(sub) == Split(Split(sub, "atlas-")[2], ".nii")[1]

\* list.remove(x): the list without the first x
RECURSIVE Remove(_, _)
Remove(list, x) ==
    IF list = << >> THEN << >>
    ELSE IF Head(list) = x THEN Tail(list) ELSE <<Head(list)>> \o Remove(Tail(list), x)

\* lines 243-254: the parcellations of volmDir, without the two volumetric
\* atlases, and their conte69 names
ListParcellations ==
    /\ pc = "list_parc"
    /\ \E listing \in Listings :
        LET list == Remove(Remove(Tab([i \in 1..Len(listing) |-> AtlasName(listing[i])]),
                                  "subcortical"), "cerebellum")
        IN  /\ parcellationList' = list
            /\ parcellationList_conte' = Tab([i \in 1..Len(list) |-> list[i] \o "_conte69"])
    /\ k' = 1
    /\ pc' = "conte_loop"
    /\ UNCHANGED <<envVars, surfaces, scans, sctxKind, badAnnot, printed, written,
                   c69Vars, volVars, calls, data_corr, ts, ts_r, natVars>>

\* break: the loop over list ends
Break(i, list) == Len(list) + 1

\* continue, and the end of a loop body that was skipped: the loop over list
\* goes on with the element after position i
Continue(i, list) == i + 1

\* str.replace(old, ''): the string without any occurrence of old
RECURSIVE Replace(_, _)
Replace(str, old) ==
    IF Len(str) < Len(old) THEN str
    ELSE IF SubSeq(str, 1, Len(old)) = old
         THEN Replace(SubSeq(str, Len(old) + 1, Len(str)), old)
         ELSE SubSeq(str, 1, 1) \o Replace(SubSeq(str, 2, Len(str)), old)

\* parcellation.replace('_conte69', ''): the atlas name in the FC file's name
SaveName(parcellation) == Replace(parcellation, "_conte69")

\* lines 257-290: one pass of the conte69 loop.  ts and ts_r keep the values
\* of the pass after it (del only unbinds the names).
ConteIter ==
    /\ pc = "conte_loop" /\ argv.noFC # "TRUE" /\ k <= Len(parcellationList_conte)
    /\ LET parcellation == parcellationList_conte[k]
       IN  IF parcellation = "aparc-a2009s_conte69"
           THEN /\ printed' = printed \cup {Msg("currently not supported", parcellation)}
                /\ k' = Continue(k, parcellationList_conte)
                /\ UNCHANGED <<written, ts, ts_r>>
           ELSE LET thisparc == C69Labels(seed, n_vertex_ctx_c69)
                    t == ParcellateC69(data_corr, n, n_vertex_ctx_c69, thisparc)
                    r == FinishFC(corrcoef(t), exclude_labels, n_sctx)
                IN  /\ ts' = t
                    /\ ts_r' = r
                    /\ written' = Save(written, File("conte69-FC", SaveName(parcellation)), r)
                    /\ printed' = printed
                    /\ k' = k + 1
    /\ UNCHANGED <<pc, envVars, surfaces, scans, sctxKind, badAnnot, c69Vars, volVars,
                   calls, data_corr, parcellationList, parcellationList_conte, natVars>>

\* lines 291-330: the end of the conte69 stage (the notice when no FC was
\* asked for), the three native regressions and the concatenations
NativePrep ==
    /\ pc = "conte_loop" /\ (argv.noFC = "TRUE" \/ k > Len(parcellationList_conte))
    /\ printed' = IF argv.noFC = "TRUE"
                  THEN printed \cup {Msg("no FC was selected", "conte69")}
                  ELSE printed
    /\ LET lh == get_regressed_data(conf, NatLh(seed), argv.performNSR, argv.performGSR, "lh_native")
           rh == get_regressed_data(conf, NatRh(seed), argv.performNSR, argv.performGSR, "rh_native")
           sc == get_regressed_data(conf, sctx \o cereb, argv.performNSR, argv.performGSR, "sctx_cereb")
       IN  /\ calls' = calls \o <<lh, rh, sc>>
           /\ dataNative_corr' = lh.Data_corr \o rh.Data_corr
           /\ sctx_cereb_corr' = sc.Data_corr
    /\ data_corr' = << >> /\ data' = << >> /\ sctx' = << >> /\ cereb' = << >>
    /\ k' = 1
    /\ pc' = "native_loop"
    /\ UNCHANGED <<envVars, surfaces, scans, sctxKind, badAnnot, written,
                   lh_data, rh_data, n_vertex_ctx_c69, n_sctx, cereb_tmp, roiLabels,
                   exclude_labels, n, conf, parcellationList, parcellationList_conte,
                   ts, ts_r>>

\* lines 334-378: one pass of the native loop
NativeIter ==
    /\ pc = "native_loop" /\ argv.noFC # "TRUE" /\ k <= Len(parcellationList)
    /\ \E bad \in BOOLEAN :
        LET parcellation == parcellationList[k]
            lh == AnnotLh(seed, bad)
            rh == AnnotRh(seed, bad)
            nativeLength == Len(lh.labels) + Len(rh.labels)
        IN  /\ badAnnot' = IF bad THEN badAnnot \cup {parcellation} ELSE badAnnot
            /\ IF Len(dataNative_corr) # nativeLength
               THEN /\ printed' = printed \cup
                          {Msg("ERROR.. mismatch between the native surface and the annot file!!",
                               parcellation)}
                    /\ k' = Continue(k, parcellationList)
                    /\ UNCHANGED <<written, ts, ts_r>>
               ELSE LET t == ParcellateNative(dataNative_corr, sctx_cereb_corr, NativeParc(lh, rh))
                        r == FinishFC(corrcoef(t), exclude_labels, n_sctx)
                    IN  /\ ts' = t
                        /\ ts_r' = r
                        /\ written' = Save(Save(written, File("fsnative-timeseries", parcellation), t),
                                           File("fsnative-FC", parcellation), r)
                        /\ printed' = printed
                        /\ k' = k + 1
    /\ UNCHANGED <<pc, envVars, surfaces, scans, sctxKind, c69Vars, volVars,
                   calls, data_corr, parcellationList, parcellationList_conte, natVars>>

\* lines 379-431: the end of the native stage and the quality control, which
\* reads the framewise displacement and the unfiltered native images and
\* writes a plot and the tSNR file (their contents are not modelled)
QualityControl ==
    /\ pc = "native_loop" /\ (argv.noFC = "TRUE" \/ k > Len(parcellationList))
    /\ printed' = (IF argv.noFC = "TRUE"
                   THEN printed \cup {Msg("no FC was selected", "fsnative")}
                   ELSE printed)
                  \cup {Msg("func regression and FC ran successfully", "")}
    /\ written' = Save(Save(written, File("framewiseDisplacement.png", ""), << >>),
                       File("tSNR", ""), << >>)
    /\ dataNative_corr' = << >> /\ sctx_cereb_corr' = << >>
    /\ pc' = "done"
    /\ UNCHANGED <<envVars, surfaces, scans, sctxKind, badAnnot, c69Vars, volVars,
                   calls, data_corr, fcVars>>

Next ==
    \/ CheckSurfaces
    \/ LoadConte69
    \/ CheckScans
    \/ LoadSctx
    \/ LoadCereb
    \/ RegressConte69
    \/ ListParcellations
    \/ ConteIter
    \/ NativePrep
    \/ NativeIter
    \/ QualityControl

Spec == Init /\ [][Next]_vars

\* ================================================================ claims
\* ----------------------------------------------------- the design matrix
Enabled(flag) == flag.val = "1"

Intercept == <<OnesVec>>

\* the run has made all four regression calls, in the script's order
FourCalls ==
    /\ Len(calls) = 4
    /\ calls[1].name = "conte69" /\ calls[2].name = "lh_native"
    /\ calls[3].name = "rh_native" /\ calls[4].name = "sctx_cereb"

\* C1: without a spike file, performNSR "1" gives the design [intercept, dof,
\* wm, csf], otherwise performGSR "1" gives [intercept, dof, wm, csf, gs], and
\* in both cases the regression is applied to Data.
C1_NoSpikeDesignTable ==
    \A i \in 1..Len(calls) :
        conf.x_spike = "" =>
            /\ Enabled(argv.performNSR) =>
                  /\ calls[i].mdl = Intercept \o conf.dof \o conf.wm \o conf.csf
                  /\ calls[i].fitted
            /\ (~Enabled(argv.performNSR) /\ Enabled(argv.performGSR)) =>
                  /\ calls[i].mdl = Intercept \o conf.dof \o conf.wm \o conf.csf \o conf.gs
                  /\ calls[i].fitted

C8_InterceptOnlySkips ==
    (conf.x_spike = "" /\ ~Enabled(argv.performNSR) /\ ~Enabled(argv.performGSR)) =>
        /\ \A i \in 1..Len(calls) :
              /\ calls[i].mdl = Intercept
              /\ ~calls[i].fitted
              /\ calls[i].Data_corr = calls[i].Data
        /\ pc = "done" => FourCalls

\* a finished run without a spike file and with both flags "0"
C8_Witness ==
    /\ pc = "done" /\ FourCalls /\ conf.x_spike = ""
    /\ ~Enabled(argv.performNSR) /\ ~Enabled(argv.performGSR)
    /\ \A i \in 1..4 : calls[i].Data # << >> /\ calls[i].Data_corr = calls[i].Data

\* the columns of the design are linearly independent and there is more
\* than the intercept
NonDegenerate(mdl) == Len(mdl) > 1 /\ Len(OrthBasis(mdl, Len(mdl))) = Len(mdl) - 1

\* C10: for a non-degenerate design, every column of the returned residual
\* has dot product zero with every column of the design, the intercept
\* column of ones included.
C10_ResidualOrthogonal ==
    \A i \in 1..Len(calls) :
        (calls[i].fitted /\ NonDegenerate(calls[i].mdl)) =>
            \A j \in 1..Len(calls[i].Data_corr), x \in 1..Len(calls[i].mdl) :
                /\ calls[i].Data_corr[j].d # 0
                /\ Dot(calls[i].Data_corr[j].v, calls[i].mdl[x]) = 0

\* ------------------------------------------------------- the parcellation
\* C3: in the conte69 loop, the k-th regional column is the mean of the
\* cleaned cortical vertex columns whose label is the k-th unique label of
\* the parcellation, whatever the labels are.
C3_ConteRegionalMeans ==
    (pc = "conte_loop" /\ ts # << >>) =>
        LET thisparc == C69Labels(seed, n_vertex_ctx_c69)
            ctx == SubSeq(data_corr, Len(data_corr) - n_vertex_ctx_c69 + 1, Len(data_corr))
            uparcel == SortedSeq(Range(thisparc))
        IN  /\ Len(ts) = n + Len(uparcel)
            /\ \A r \in 1..Len(uparcel) :
                  ts[n + r] =
                      MeanCols(SelectMask(ctx, [j \in 1..Len(thisparc) |-> thisparc[j] = uparcel[r]],
                                          Len(thisparc)))

\* ------------------------------------------------------- the cerebellum
\* the 0-based indices of the cerebellar labels that are not in the file
Missing == (0..(NCereb - 1)) \ {roiLabels[i] - 1 : i \in 1..Len(roiLabels)}

\* C4: with fewer than 34 labels, the rebuilt cerebellar timeseries has 34
\* columns, the column of every present label L (0-based L - 1) is the input
\* column of that label value for value, every other column is zero, and
\* the missing-region set is the ascending complement of the present indices.
C4_CerebReconciliation ==
    (cereb # << >> /\ Len(roiLabels) < NCereb) =>
        /\ Len(cereb) = NCereb
        /\ \A i \in 1..Len(roiLabels) : cereb[roiLabels[i]] = cereb_tmp[i]
        /\ \A c \in Missing : cereb[c + 1] = ZeroCol
        /\ ~exclude_labels.nan
        /\ exclude_labels.idx = SortedSeq(Missing)

\* ------------------------------------------------- the fatal preconditions
\* C5: an absent surfaces directory, more than one candidate conte69 scan
\* and an empty subcortical file each end the run with their diagnostic
\* printed and no file written.
C5_FatalPreconditionsDiagnosed ==
    /\ surfaces = "absent" =>
          /\ pc = "exited" /\ written = << >>
          /\ Msg("No surface directory. Exiting. Bye-bye", "") \in printed
    /\ scans > 1 =>
          /\ pc = "exited" /\ written = << >>
          /\ Msg("more than one scan found; exiting. Bye-bye", "") \in printed
    /\ sctxKind = "empty" =>
          /\ pc = "exited" /\ written = << >>
          /\ Msg("Uh oh, your subcortical timeseries file is empty; exiting. Bye-bye", "")
                \in printed

\* ------------------------------------------------ the connectivity files
FCKinds == {"conte69-FC", "fsnative-FC"}

\* the connectivity matrices that were written
FCFiles == {f \in DOMAIN written : f[1] \in FCKinds}

\* the 1-based row and column of the 0-based missing region i
Position(i) == i + n_sctx + 1

\* the matrix F agrees with R on and above the main diagonal
SameUpper(F, R) ==
    /\ Len(F) = Len(R)
    /\ \A i \in 1..Len(F), j \in 1..Len(F) : j >= i => F[i][j] = R[i][j]

\* some entry above the diagonal is a correlation other than 0
ProperEntry(F) ==
    \E i \in 1..Len(F), j \in 1..Len(F) : j > i /\ F[i][j] \notin {Zero, NaN}

\* C6: in every connectivity matrix written, conte69 or native, the whole row
\* and the whole column of every missing region, at its index + n_sctx, are
\* zero, the diagonal included; and when all 34 cerebellar labels are present
\* nothing is zeroed: the matrix is the correlation matrix of its timeseries
\* on and above the diagonal.
C6_MissingRowsAndColumnsZero ==
    /\ \A f \in FCFiles : \A i \in Missing : \A j \in 1..Len(written[f]) :
          /\ written[f][Position(i)][j] = Zero
          /\ written[f][j][Position(i)] = Zero
    /\ Missing = {} =>
          /\ \A f \in FCFiles :
                f[1] = "fsnative-FC" =>
                    SameUpper(written[f], corrcoef(written[File("fsnative-timeseries", f[2])]))
          /\ pc = "conte_loop" =>
                \A f \in FCFiles : SameUpper(written[f], corrcoef(ts))

\* a finished run that lost cerebellar labels and wrote a conte69 and a
\* native matrix that are not zero everywhere
C6_Witness ==
    /\ pc = "done" /\ Missing # {}
    /\ \E f \in FCFiles : f[1] = "conte69-FC" /\ ProperEntry(written[f])
    /\ \E f \in FCFiles : f[1] = "fsnative-FC" /\ ProperEntry(written[f])

\* C9: every connectivity matrix written is upper-triangular: every entry
\* below the main diagonal is zero, with or without missing regions; and
\* what the triangle keeps of a missing region's row and column is zero.
C9_UpperTriangular ==
    \A f \in FCFiles :
        /\ \A i \in 1..Len(written[f]), j \in 1..Len(written[f]) :
              i > j => written[f][i][j] = Zero
        /\ \A m \in Missing : \A j \in 1..Len(written[f]) :
              /\ j >= Position(m) => written[f][Position(m)][j] = Zero
              /\ j <= Position(m) => written[f][j][Position(m)] = Zero

\* a finished run with all labels present whose matrices, of more than one
\* row, hold correlations above the diagonal
C9_Witness ==
    /\ pc = "done" /\ Missing = {} /\ FCFiles # {}
    /\ \A f \in FCFiles : Len(written[f]) > 1 /\ ProperEntry(written[f])

\* ----------------------------------------------------- the skipped atlases
Unsupported == "aparc-a2009s_conte69"

NativeFiles(p) == {File("fsnative-timeseries", p), File("fsnative-FC", p)}

\* the conte69 loop has dealt with position i of its list
ConteDone(i) == pc \in {"native_loop", "done"} \/ (pc = "conte_loop" /\ i < k)

\* the native loop has dealt with position i of its list
NativeDone(i) == pc = "done" \/ (pc = "native_loop" /\ i < k)

\* a parcellation was skipped
Skipped == badAnnot # {} \/ Msg("currently not supported", Unsupported) \in printed

\* what the script prints when it skips a parcellation
SkipMessages ==
    {Msg("currently not supported", Unsupported)} \cup
    {Msg("ERROR.. mismatch between the native surface and the annot file!!", p) :
        p \in Range(parcellationList)}

\* a step that prints one of them
SkipStep == (printed' \ printed) \cap SkipMessages # {}

\* the run is in the same loop, one position further
LoopGoesOn == pc' = pc /\ k' = k + 1

\* the files of the parcellations that the loops have dealt with
SkippedAlone ==
    argv.noFC # "TRUE" =>
        /\ \A i \in 1..Len(parcellationList_conte) :
              ConteDone(i) =>
                  IF parcellationList_conte[i] = Unsupported
                  THEN /\ Msg("currently not supported", Unsupported) \in printed
                       /\ File("conte69-FC", parcellationList[i]) \notin DOMAIN written
                  ELSE File("conte69-FC", parcellationList[i]) \in DOMAIN written
        /\ \A i \in 1..Len(parcellationList) :
              NativeDone(i) =>
                  IF parcellationList[i] \in badAnnot
                  THEN /\ Msg("ERROR.. mismatch between the native surface and the annot file!!",
                              parcellationList[i]) \in printed
                       /\ NativeFiles(parcellationList[i]) \cap DOMAIN written = {}
                  ELSE NativeFiles(parcellationList[i]) \subseteq DOMAIN written
        /\ Skipped => pc \in {"conte_loop", "native_loop", "done"}

\* C7: a parcellation whose annotation length does not match the native
\* timeseries gets the error message and no native file, the unsupported
\* conte69 variant gets the notice and no file, every other parcellation
\* of the list gets its files, and the pass that skips leaves the run in
\* its loop, at the next parcellation of the list.
C7_SkipOnlyThatParcellation == []SkippedAlone /\ [][SkipStep => LoopGoesOn]_vars

\* a finished run that skipped the first parcellation of each loop and
\* wrote the files of the second
C7_Witness ==
    /\ pc = "done" /\ argv.noFC # "TRUE" /\ Len(parcellationList) = 2
    /\ parcellationList_conte[1] = Unsupported
    /\ File("conte69-FC", parcellationList[2]) \in DOMAIN written
    /\ badAnnot = {parcellationList[1]}
    /\ NativeFiles(parcellationList[2]) \subseteq DOMAIN written
====
